---- MODULE Spec2Model ----
(***************************************************************************)
(* A model of ProgressTracker (src/src/utils/progressTracking.ts): the     *)
(* bounded progress history kept in localStorage, the retry wrapper, the   *)
(* analysis operations and their parsers, the progress aggregator          *)
(* trackProgressWithEmotions and the session lifecycle endSession.         *)
(*                                                                         *)
(* JavaScript values are modelled by what the code inspects of them: a     *)
(* progress record carries, next to its payload, the runtime type of every *)
(* path validateProgressData looks at (field t), so that `typeof`,         *)
(* Array.isArray and a property access on null can be evaluated.           *)
(***************************************************************************)
EXTENDS Integers, Sequences, FiniteSets, TLC

VARIABLES
    store,      \* the value of localStorage under STORAGE_KEY
    clock,      \* the wall clock read by new Date()
    opCount,    \* number of public calls made so far
    last,       \* the trace of the last public call (its inputs, locals, outcome)
    probe,      \* input and output of the last call of a private helper
    pending,    \* the saveProgress calls in flight, suspended at an await
    run         \* the trackProgressWithEmotions or endSession call in flight

vars == <<store, clock, opCount, last, probe, pending, run>>

----------------------------------------------------------------------------
(* Program constants *)

MAX_RETRIES == 3

HISTORY_LIMIT == 50

ENGAGEMENT_DIMENSIONS == 5

SEGMENT_COUNT == 3

(* Bounds of the model *)

MaxOps == 2

MaxStoreOps == 2

MaxBudget == 3

MaxTokens == 6

MaxMessages == 7

MaxStored == 3

MaxBlocks == 2

MaxGoals == 2

----------------------------------------------------------------------------
(* Promises *)

\* An attempt of an operation either resolves with a value or rejects with an error
Resolved(v) == [ok |-> TRUE, value |-> v, error |-> "none"]

Rejected(e) == [ok |-> FALSE, value |-> "none", error |-> e]

----------------------------------------------------------------------------
(* Arithmetic and sequence helpers: Math.min, Math.max, Array.prototype.slice *)

MathMin(a, b) == IF a < b THEN a ELSE b

MathMax(a, b) == IF a > b THEN a ELSE b

\* s.slice(from, to) with 0-based from (inclusive) and to (exclusive), both >= 0
Slice(s, from, to) ==
    LET lo == MathMin(from, Len(s))
        hi == MathMin(to, Len(s))
    IN  IF hi <= lo THEN <<>> ELSE [i \in 1..(hi - lo) |-> s[lo + i]]

\* s.slice(-n): the last n elements
SliceLast(s, n) == Slice(s, MathMax(Len(s) - n, 0), Len(s))

----------------------------------------------------------------------------
(* Progress records (interface ProgressData) *)

GoodTypes ==
    [ self |-> "object", sessionSummary |-> "string", goals |-> "array",
      improvements |-> "object", strengths |-> "array", challenges |-> "array",
      recommendations |-> "array", timestamp |-> "string",
      emotionalJourney |-> "object", emotions |-> "array",
      dominantEmotions |-> "array", engagementLevel |-> "array" ]

NoImprovements == [strengths |-> <<>>, challenges |-> <<>>, recommendations |-> <<>>]

MkRecord(summary, goals, improvements, ts, emotions, dominant, engagement) ==
    [ t |-> GoodTypes,
      sessionSummary |-> summary,
      goals |-> goals,
      improvements |-> improvements,
      timestamp |-> ts,
      emotionalJourney |-> [ emotions |-> emotions,
                             dominantEmotions |-> dominant,
                             engagementLevel |-> engagement ] ]

\* A well-formed record with an empty payload, told apart by its timestamp
BlankRecord(ts) == MkRecord(<<>>, <<>>, NoImprovements, ts, <<>>, <<>>, <<>>)

\* A value whose checked paths have the runtime types ty
Shaped(ty, ts) == [BlankRecord(ts) EXCEPT !.t = ty]

Undefined ==
    [ self |-> "undefined", sessionSummary |-> "undefined", goals |-> "undefined",
      improvements |-> "undefined", strengths |-> "undefined",
      challenges |-> "undefined", recommendations |-> "undefined",
      timestamp |-> "undefined", emotionalJourney |-> "undefined",
      emotions |-> "undefined", dominantEmotions |-> "undefined",
      engagementLevel |-> "undefined" ]

\* The JavaScript value null
NullRecord == Shaped([Undefined EXCEPT !.self = "null"], 0)

IsNull(v) == v.t.self = "null"

\* typeof v === 'object' holds of objects, arrays and null
TypeofObject == {"object", "array", "null"}

\* reading a property of these throws a TypeError
Nullish == {"null", "undefined"}

\* validateProgressData: "true", "false", or "throws" (a TypeError raised by a
\* property access on null), evaluated left to right with short-circuit &&
validateProgressData(data) ==
    LET t == data.t IN
    IF t.self \in Nullish THEN "throws"
    ELSE IF t.sessionSummary # "string" THEN "false"
    ELSE IF t.goals # "array" THEN "false"
    ELSE IF t.improvements \notin TypeofObject THEN "false"
    ELSE IF t.improvements \in Nullish THEN "throws"
    ELSE IF t.strengths # "array" THEN "false"
    ELSE IF t.challenges # "array" THEN "false"
    ELSE IF t.recommendations # "array" THEN "false"
    ELSE IF t.timestamp # "string" THEN "false"
    ELSE IF t.emotionalJourney \notin TypeofObject THEN "false"
    ELSE IF t.emotionalJourney \in Nullish THEN "throws"
    ELSE IF t.emotions # "array" THEN "false"
    ELSE IF t.dominantEmotions # "array" THEN "false"
    ELSE IF t.engagementLevel # "array" THEN "false"
    ELSE "true"

----------------------------------------------------------------------------
(* The local store: one key holding text *)

\* localStorage.getItem returns null
MissingKey == [kind |-> "missing", items |-> <<>>]

\* text that JSON.parse rejects
GarbageText == [kind |-> "garbage", items |-> <<>>]

\* JSON text of a value that is not an array
NonListText == [kind |-> "nonlist", items |-> <<>>]

\* The JavaScript number NaN
NaN == -1

\* The JavaScript number Infinity: above every number the model computes with
Infinity == 999999999

\* The JavaScript value null where JSON text holds it in place of a number
JSONnull == -2

\* JSON.stringify of a number, read back by JSON.parse: NaN and Infinity are
\* written as null
jsonNumber(n) == IF n = NaN \/ n = Infinity THEN JSONnull ELSE n

\* JSON.stringify of a progress record, read back by JSON.parse: strings, lists
\* and finite numbers come back as they were
jsonRecord(record) ==
    [record EXCEPT
        !.goals = [i \in 1..Len(@) |-> [@[i] EXCEPT !.progress = jsonNumber(@)]],
        !.emotionalJourney.emotions =
            [i \in 1..Len(@) |-> [@[i] EXCEPT !.value = jsonNumber(@)]],
        !.emotionalJourney.dominantEmotions =
            [i \in 1..Len(@) |-> [@[i] EXCEPT !.percentage = jsonNumber(@)]],
        !.emotionalJourney.engagementLevel = [i \in 1..Len(@) |-> jsonNumber(@[i])]]

\* JSON.stringify(limitedData): the JSON text of an array of records, held as
\* the list JSON.parse makes of it
JSONstringify(list) ==
    [kind |-> "array", items |-> [i \in 1..Len(list) |-> jsonRecord(list[i])]]

\* getProgressHistory: JSON.parse and filter; any exception yields []
getProgressHistory(st) ==
    IF st.kind = "missing" THEN <<>>
    ELSE IF st.kind = "garbage" THEN <<>>
    ELSE IF st.kind # "array" THEN <<>>
    ELSE IF \E i \in 1..Len(st.items) : validateProgressData(st.items[i]) = "throws"
         THEN <<>>
    ELSE SelectSeq(st.items, LAMBDA item : validateProgressData(item) = "true")

\* getLatestProgress: the last element of the history, or null
getLatestProgress(st) ==
    LET history == getProgressHistory(st) IN
    IF Len(history) > 0 THEN history[Len(history)] ELSE NullRecord

----------------------------------------------------------------------------
(* The retry wrapper *)

\* retryOperation(operation, retries): operation[k] is the outcome of the k-th
\* invocation of the operation; `attempt` is the number of the invocation made by
\* this activation. The result records how many invocations were made.
RECURSIVE retryOperationFrom(_, _, _)
retryOperationFromOffByOne(operation, retries, attempt) ==
    LET r == operation[attempt] IN
    IF r.ok THEN [ok |-> TRUE, value |-> r.value, error |-> "none", attempts |-> attempt]
    ELSE IF retries > 1
         THEN retryOperationFrom(operation, retries - 1, attempt + 1)
         ELSE [ok |-> FALSE, value |-> "none", error |-> r.error, attempts |-> attempt]

retryOperationFrom(operation, retries, attempt) ==
    LET r == operation[attempt] IN
    IF r.ok THEN [ok |-> TRUE, value |-> r.value, error |-> "none", attempts |-> attempt]
    ELSE IF retries > 0
         THEN retryOperationFrom(operation, retries - 1, attempt + 1)
         ELSE [ok |-> FALSE, value |-> "none", error |-> r.error, attempts |-> attempt]

retryOperation(operation, retries) == retryOperationFrom(operation, retries, 1)

----------------------------------------------------------------------------
(* saveProgress *)

LimitHistoryKeepFirst(updatedData) == Slice(updatedData, 0, HISTORY_LIMIT)

\* updatedData.slice(-50)
LimitHistory(updatedData) == SliceLast(updatedData, HISTORY_LIMIT)

SaveError == "Failed to save progress data"

\* The trace of a saveProgress call that raised: the catch block logs the cause
\* and throws the generic error; the store is as it was
saveFailed(st, progressData, cause, reads, writes) ==
    [ data |-> progressData, before |-> st, after |-> st, raised |-> TRUE,
      error |-> SaveError, cause |-> cause, reads |-> reads, writes |-> writes ]

\* The body of saveProgress after validation: read the history, append, limit,
\* write with retries. writes[k] is the outcome of the k-th localStorage.setItem.
saveValidated(st, progressData, writes) ==
    LET existingData == getProgressHistory(st)
        updatedData == Append(existingData, progressData)
        limitedData == LimitHistory(updatedData)
        written == retryOperation(writes, MAX_RETRIES)
    IN  IF ~written.ok
        THEN saveFailed(st, progressData, written.error, 1, written.attempts)
        ELSE [ data |-> progressData, before |-> st,
               after |-> JSONstringify(limitedData), raised |-> FALSE,
               error |-> "none", cause |-> "none", reads |-> 1,
               writes |-> written.attempts ]

saveProgressSkipInvalid(st, progressData, writes) ==
    IF validateProgressData(progressData) # "true"
    THEN [saveFailed(st, progressData, "none", 0, 0) EXCEPT
             !.raised = FALSE, !.error = "none"]
    ELSE saveValidated(st, progressData, writes)

\* saveProgress(progressData) on store st. Yields the store afterwards and the
\* call's trace.
saveProgress(st, progressData, writes) ==
    LET valid == validateProgressData(progressData) IN
    IF valid = "throws" THEN saveFailed(st, progressData, "TypeError", 0, 0)
    ELSE IF valid = "false"
    THEN saveFailed(st, progressData, "Invalid progress data format", 0, 0)
    ELSE saveValidated(st, progressData, writes)

----------------------------------------------------------------------------
(* saveProgress as the event loop runs it: the code between two awaits runs    *)
(* without interruption; the call is suspended at `await getProgressHistory()` *)
(* and at the delay that follows a failed write. An activation records where   *)
(* the call is (pc), its argument, the outcomes its writes will have, the      *)
(* history it read, the data it writes and the retries it has left.            *)

\* No saveProgress call is in flight
NoPending == <<>>

\* No trackProgressWithEmotions or endSession call is in flight
NoRun == [pc |-> "idle"]

\* A saveProgress call that has not started
saveCalled(progressData, writes) ==
    [ pc |-> "called", data |-> progressData, writes |-> writes,
      existingData |-> <<>>, limitedData |-> <<>>, retries |-> MAX_RETRIES,
      attempts |-> 0, error |-> "none", cause |-> "none" ]

\* The catch block of saveProgress
saveRaised(activation, cause) ==
    [activation EXCEPT !.pc = "raised", !.error = SaveError, !.cause = cause]

\* From the call to the first await: validation, then getProgressHistory, which
\* reads the store before it returns its promise
saveBegin(st, activation) ==
    LET valid == validateProgressData(activation.data) IN
    IF valid = "throws" THEN saveRaised(activation, "TypeError")
    ELSE IF valid = "false" THEN saveRaised(activation, "Invalid progress data format")
    ELSE [activation EXCEPT !.pc = "awaitHistory",
                            !.existingData = getProgressHistory(st)]

saveAttemptNoCountdown(st, activation, outcome) ==
    IF outcome.ok
    THEN [ store |-> JSONstringify(activation.limitedData),
           activation |-> [activation EXCEPT !.pc = "saved",
                                             !.attempts = @ + 1] ]
    ELSE [ store |-> st, activation |-> [activation EXCEPT !.pc = "delay"] ]

\* One invocation of the write operation by retryOperation, and what follows
\* it: the store after it and the activation after it
saveAttempt(st, activation, outcome) ==
    IF outcome.ok
    THEN [ store |-> JSONstringify(activation.limitedData),
           activation |-> [activation EXCEPT !.pc = "saved",
                                             !.attempts = @ + 1] ]
    ELSE IF activation.retries > 0
    THEN [ store |-> st,
           activation |-> [activation EXCEPT !.pc = "delay", !.attempts = @ + 1,
                                             !.retries = @ - 1] ]
    ELSE [ store |-> st,
           activation |-> [saveRaised(activation, outcome.error) EXCEPT
                              !.attempts = @ + 1] ]

\* From the first await to the next: updatedData, limitedData, the first write
saveResume(st, activation) ==
    saveAttempt(st,
                [activation EXCEPT
                    !.limitedData = LimitHistory(Append(activation.existingData,
                                                        activation.data))],
                activation.writes[activation.attempts + 1])

\* After the retry delay: retryOperation(operation, retries - 1) writes the
\* same limitedData again
saveRetry(st, activation) ==
    saveAttempt(st, activation, activation.writes[activation.attempts + 1])

----------------------------------------------------------------------------
(* Text as the code handles it. A digit run is the sequence of its digits; a   *)
(* text is the sequence of its lines; a line is the sequence of the strings    *)
(* it is made of, so that a blank line is <<>>.                                *)

\* The decimal value of a run of digits
RECURSIVE decimal(_)
decimal(digits) ==
    IF Len(digits) = 0 THEN 0
    ELSE 10 * decimal(SubSeq(digits, 1, Len(digits) - 1)) + digits[Len(digits)]

\* A run of digits without its leading zeros
RECURSIVE significant(_)
significant(digits) ==
    IF Len(digits) > 0 /\ digits[1] = 0 THEN significant(Tail(digits)) ELSE digits

\* A number of more decimal digits than this is above Number.MAX_VALUE
MAX_VALUE_DIGITS == 309

\* parseInt(digits, 10) of a run of decimal digits: a double, which is Infinity
\* when the value is above Number.MAX_VALUE
parseInt(digits) ==
    IF Len(significant(digits)) > MAX_VALUE_DIGITS THEN Infinity
    ELSE decimal(significant(digits))

\* A word of a model response: a run of digits, or text without any digit
Digits(ds) == [isDigits |-> TRUE, digits |-> ds]

Word == [isDigits |-> FALSE, digits |-> <<>>]

\* String.prototype.trim on a text: blank lines at both ends go
RECURSIVE trim(_)
trim(text) ==
    IF Len(text) = 0 THEN text
    ELSE IF text[1] = <<>> THEN trim(Tail(text))
    ELSE IF text[Len(text)] = <<>> THEN trim(SubSeq(text, 1, Len(text) - 1))
    ELSE text

\* String.prototype.trim on a one-line string: the string without its
\* surrounding blanks
trimLine(line) ==
    CASE line = " " -> ""
      [] line = "Sleep better " -> "Sleep better"
      [] OTHER -> line

----------------------------------------------------------------------------
(* Analysis operations. Each takes the outcome of its generateContent call:   *)
(* Resolved(response) or Rejected(error).                                      *)

ClampNoUpper(n) == MathMax(0, n)

\* Math.min(100, Math.max(0, n))
Clamp(n) == MathMin(100, MathMax(0, n))

\* while (normalizedRatings.length < 5) normalizedRatings.push(0)
RECURSIVE padZeros(_)
padZeros(ratings) ==
    IF Len(ratings) < ENGAGEMENT_DIMENSIONS THEN padZeros(Append(ratings, 0)) ELSE ratings

ZeroEngagement == <<0, 0, 0, 0, 0>>

analyzeEngagementNoPad(call) ==
    IF ~call.ok THEN ZeroEngagement
    ELSE LET matches == SelectSeq(call.value, LAMBDA w : w.isDigits)
             ratings == Slice(matches, 0, ENGAGEMENT_DIMENSIONS)
         IN  [i \in 1..Len(ratings) |-> Clamp(parseInt(ratings[i].digits))]

\* analyzeEngagement: response.match(/\d+/g)?.slice(0, 5) || [], clamped, padded
analyzeEngagement(call) ==
    IF ~call.ok THEN ZeroEngagement
    ELSE LET matches == SelectSeq(call.value, LAMBDA w : w.isDigits)
             ratings == Slice(matches, 0, ENGAGEMENT_DIMENSIONS)
             normalizedRatings ==
                 [i \in 1..Len(ratings) |-> Clamp(parseInt(ratings[i].digits))]
         IN  padZeros(normalizedRatings)

analyzeSessionSummaryWithFallback(call) ==
    IF ~call.ok THEN << <<"Unable to generate summary">> >> ELSE trim(call.value)

\* analyzeSessionSummary: the trimmed response, or '' on failure
analyzeSessionSummary(call) == IF ~call.ok THEN <<>> ELSE trim(call.value)

\* A block of the goals response, as the four field patterns see it. A field that
\* does not match is "" (title, description, status) or matched = FALSE (progress).
GoalBlock(title, description, matched, digits, status) ==
    [ title |-> title, description |-> description,
      progress |-> [matched |-> matched, digits |-> digits], status |-> status ]

analyzeGoalsTitleOnly(call) ==
    IF ~call.ok THEN <<>>
    ELSE LET kept == SelectSeq(call.value, LAMBDA b : b.title # "")
         IN  [i \in 1..Len(kept) |->
                 [ title |-> trimLine(kept[i].title),
                   description |-> trimLine(kept[i].description),
                   progress |-> IF kept[i].progress.matched
                                THEN Clamp(parseInt(kept[i].progress.digits))
                                ELSE 0,
                   status |-> IF kept[i].status # "" THEN kept[i].status
                              ELSE "not-started" ]]

\* analyzeGoals: one goal per block that has a title and a description
analyzeGoals(call) ==
    IF ~call.ok THEN <<>>
    ELSE LET kept == SelectSeq(call.value,
                               LAMBDA b : b.title # "" /\ b.description # "")
         IN  [i \in 1..Len(kept) |->
                 [ title |-> trimLine(kept[i].title),
                   description |-> trimLine(kept[i].description),
                   progress |-> IF kept[i].progress.matched
                                THEN Clamp(parseInt(kept[i].progress.digits))
                                ELSE 0,
                   status |-> IF kept[i].status # "" THEN kept[i].status
                              ELSE "not-started" ]]

\* The bullet lines of a section, marker removed and trimmed
bulletLines(section) ==
    LET bullets == SelectSeq(section.lines, LAMBDA l : l.bullet)
    IN  [i \in 1..Len(bullets) |-> trimLine(bullets[i].text)]

\* sections.forEach: a later section with the same label replaces an earlier one
RECURSIVE improvementsFrom(_, _)
improvementsFrom(sections, improvements) ==
    IF Len(sections) = 0 THEN improvements
    ELSE LET section == Head(sections)
             next == CASE section.label = "Strengths:" ->
                              [improvements EXCEPT !.strengths = bulletLines(section)]
                       [] section.label = "Challenges:" ->
                              [improvements EXCEPT !.challenges = bulletLines(section)]
                       [] section.label = "Recommendations:" ->
                              [improvements EXCEPT !.recommendations = bulletLines(section)]
                       [] OTHER -> improvements
         IN  improvementsFrom(Tail(sections), next)

\* analyzeImprovements
analyzeImprovements(call) ==
    IF ~call.ok THEN NoImprovements ELSE improvementsFrom(call.value, NoImprovements)

\* The pipe lines of the emotions response with three non-empty fields; the
\* intensity is parseInt(value, 10) || 0
emotionEntries(lines) ==
    LET kept == SelectSeq(lines, LAMBDA l : l.hasPipe /\ l.timestamp # ""
                                            /\ l.emotion # "" /\ l.value # <<>>)
    IN  [i \in 1..Len(kept) |->
            [ timestamp |-> kept[i].timestamp, emotion |-> kept[i].emotion,
              value |-> IF kept[i].value[1].isDigits
                        THEN parseInt(kept[i].value[1].digits) ELSE 0 ]]

\* analyzeEmotions
analyzeEmotions(call) ==
    IF ~call.ok THEN [emotions |-> <<>>, dominantEmotions |-> <<>>]
    ELSE [ emotions |-> emotionEntries(call.value.lines),
           dominantEmotions |->
               [i \in 1..Len(call.value.distribution) |->
                   [ emotion |-> call.value.distribution[i].emotion,
                     percentage |-> parseInt(call.value.distribution[i].digits) ]] ]

\* parseAnalysisResponse: each section goes to the first keyword its text includes
RECURSIVE parseAnalysisFrom(_, _)
parseAnalysisFrom(sections, analysis) ==
    IF Len(sections) = 0 THEN analysis
    ELSE LET section == Head(sections)
             next == CASE section.keyword = "emotional state" ->
                              [analysis EXCEPT !.emotionalState = section.afterColon]
                       [] section.keyword = "key topics" ->
                              [analysis EXCEPT !.keyTopics =
                                   SelectSeq(section.items, LAMBDA x : x # "")]
                       [] section.keyword = "insights" ->
                              [analysis EXCEPT !.insights =
                                   SelectSeq(section.items, LAMBDA x : x # "")]
                       [] OTHER -> analysis
         IN  parseAnalysisFrom(Tail(sections), next)

\* analyzeSession
analyzeSession(call) ==
    IF ~call.ok
    THEN [emotionalState |-> "Unable to analyze", keyTopics |-> <<>>, insights |-> <<>>]
    ELSE parseAnalysisFrom(call.value,
                           [emotionalState |-> "", keyTopics |-> <<>>, insights |-> <<>>])

\* generateComprehensiveSummary: the parts joined by newlines, trimmed
generateComprehensiveSummary(currentSummary, analysis) ==
    LET bullets(list) == [i \in 1..Len(list) |-> <<"- ", list[i]>>]
    IN  trim(currentSummary
             \o << <<>>, <<>>, <<"Emotional State: ", analysis.emotionalState>> >>
             \o << <<>>, <<"Key Topics:">> >> \o bullets(analysis.keyTopics)
             \o << <<>>, <<"Key Insights:">> >> \o bullets(analysis.insights))

----------------------------------------------------------------------------
(* Goals *)

determineGoalStatusLenient(progress) ==
    IF progress >= 100 THEN "achieved"
    ELSE IF progress > 40 THEN "in-progress"
    ELSE "not-started"

\* determineGoalStatus
determineGoalStatus(progress) ==
    IF progress >= 100 THEN "achieved"
    ELSE IF progress > 0 THEN "in-progress"
    ELSE "not-started"

\* mergedGoals.findIndex(g => g.goal === name): the first index, or 0 when none
findIndex(mergedGoals, name) ==
    IF \E i \in 1..Len(mergedGoals) : mergedGoals[i].goal = name
    THEN CHOOSE i \in 1..Len(mergedGoals) :
             /\ mergedGoals[i].goal = name
             /\ \A j \in 1..(i - 1) : mergedGoals[j].goal # name
    ELSE 0

\* newGoals.forEach(...) of mergeGoals, from the k-th new goal on
RECURSIVE mergeGoalsFrom(_, _, _)
mergeGoalsFrom(mergedGoals, newGoals, k) ==
    IF k > Len(newGoals) THEN mergedGoals
    ELSE LET newGoal == newGoals[k]
             existingGoalIndex == findIndex(mergedGoals, newGoal.goal)
             progress == MathMax(mergedGoals[existingGoalIndex].progress, newGoal.progress)
         IN  IF existingGoalIndex > 0
             THEN mergeGoalsFrom(
                      [mergedGoals EXCEPT ![existingGoalIndex] =
                           [ goal |-> @.goal, progress |-> progress,
                             status |-> determineGoalStatus(progress) ]],
                      newGoals, k + 1)
             ELSE mergeGoalsFrom(Append(mergedGoals, newGoal), newGoals, k + 1)

mergeGoalsKeepNew(previousGoals, newGoals) ==
    LET takeNew(g) ==
            LET i == findIndex(newGoals, g.goal)
            IN  IF i > 0 THEN newGoals[i] ELSE g
    IN  mergeGoalsFrom([i \in 1..Len(previousGoals) |-> takeNew(previousGoals[i])],
                       newGoals, 1)

mergeGoalsNewOnly(previousGoals, newGoals) == newGoals

mergeGoalsAppend(previousGoals, newGoals) == previousGoals \o newGoals

\* mergeGoals
mergeGoals(previousGoals, newGoals) == mergeGoalsFrom(previousGoals, newGoals, 1)

----------------------------------------------------------------------------
(* Engagement trend *)

\* Math.ceil(a / b) for a >= 0, b > 0
MathCeilDiv(a, b) == (a + b - 1) \div b

\* Math.round(a / b) for a >= 0, b >= 0: halves round up, and 0 / 0 is NaN
MathRoundDiv(a, b) == IF b = 0 THEN NaN ELSE (2 * a + b) \div (2 * b)

\* the for loop of splitMessagesIntoSegments, from 0-based index i on
RECURSIVE segmentsFrom(_, _, _)
segmentsFrom(messages, segmentSize, i) ==
    IF i < Len(messages)
    THEN <<Slice(messages, i, i + segmentSize)>>
         \o segmentsFrom(messages, segmentSize, i + segmentSize)
    ELSE <<>>

\* splitMessagesIntoSegments
splitMessagesIntoSegments(messages) ==
    segmentsFrom(messages, MathCeilDiv(Len(messages), SEGMENT_COUNT), 0)

\* the reduce of averageEngagementLevels: per-dimension sums
RECURSIVE sumLevels(_, _)
sumLevels(engagementResults, acc) ==
    IF Len(engagementResults) = 0 THEN acc
    ELSE LET curr == Head(engagementResults)
         IN  sumLevels(Tail(engagementResults),
                       [idx \in 1..Len(acc) |->
                           acc[idx] + (IF idx <= Len(curr) THEN curr[idx] ELSE 0)])

averageEngagementLevelsTruncating(engagementResults) ==
    LET summedLevels == sumLevels(engagementResults, ZeroEngagement)
    IN  [i \in 1..Len(summedLevels) |->
            IF Len(engagementResults) = 0 THEN NaN
            ELSE summedLevels[i] \div Len(engagementResults)]

\* averageEngagementLevels
averageEngagementLevels(engagementResults) ==
    LET summedLevels == sumLevels(engagementResults, ZeroEngagement)
    IN  [i \in 1..Len(summedLevels) |->
            MathRoundDiv(summedLevels[i], Len(engagementResults))]

\* calculateEngagementTrend, where chunkCalls[k] is the outcome of the model call
\* made for the k-th segment. Yields the segments, the scores and the trend.
calculateEngagementTrend(messages, chunkCalls) ==
    LET segments == splitMessagesIntoSegments(messages)
        engagementResults ==
            [k \in 1..Len(segments) |-> analyzeEngagement(chunkCalls[k])]
    IN  [ segments |-> segments,
          engagementResults |-> engagementResults,
          trend |-> averageEngagementLevels(engagementResults) ]

----------------------------------------------------------------------------
(* The progress aggregator and the session lifecycle.                          *)
(* messages is [isArray, items]; env gives the outcome of every call the       *)
(* operation makes to the model (emotions, engagement, summary, goals,         *)
(* improvements, chunks, session) and to localStorage.setItem (writes for the  *)
(* aggregator's save, finalWrites for endSession's save).                      *)

NotAList == [isArray |-> FALSE, items |-> <<>>]

MessageList(n) == [isArray |-> TRUE, items |-> [i \in 1..n |-> i]]

noMessagesOnlyType(messages) == ~messages.isArray

\* !Array.isArray(messages) || messages.length === 0
noMessages(messages) == ~messages.isArray \/ Len(messages.items) = 0

analysisOperationRethrowing(result) ==
    [k \in 1..(MAX_RETRIES + 1) |->
        IF k = 1 THEN Rejected("model unavailable") ELSE Resolved(result)]

\* () => this.analyzeX(messages): every invocation makes one model call and
\* resolves with the analysis result, which is its parsed value or its default
analysisOperation(result) == [k \in 1..(MAX_RETRIES + 1) |-> Resolved(result)]

\* goals.map(goal => ({goal: goal.title || '', progress, status}))
toProgressGoals(goals) ==
    [i \in 1..Len(goals) |->
        [ goal |-> goals[i].title,
          progress |-> goals[i].progress,
          status |-> determineGoalStatus(goals[i].progress) ]]

\* The trace of a call that made no model call and touched no storage
Untouched(st) ==
    [ outcome |-> "raised", error |-> "none", value |-> NullRecord, store |-> st,
      modelCalls |-> 0, storeReads |-> 0, storeWrites |-> 0, saves |-> <<>>,
      engagementLevels |-> <<>> ]

\* The end of trackProgressWithEmotions once saveProgress has settled: its error
\* propagates, otherwise the record is returned
trackSaved(analysed, save) ==
    IF save.raised
    THEN [analysed EXCEPT !.outcome = "raised", !.error = save.error,
                          !.value = NullRecord, !.saves = <<save>>,
                          !.storeReads = save.reads, !.storeWrites = save.writes]
    ELSE [analysed EXCEPT !.store = save.after, !.saves = <<save>>,
                          !.storeReads = save.reads, !.storeWrites = save.writes]

\* if (this.validateProgressData(progressData)) await this.saveProgress(progressData)
\* where valid is the outcome of the validation
trackValidated(st, analysed, valid, writes) ==
    IF valid = "throws"
    THEN [analysed EXCEPT !.outcome = "raised", !.error = "TypeError",
                          !.value = NullRecord]
    ELSE IF valid = "false"
    THEN analysed
    ELSE trackSaved(analysed, saveProgress(st, analysed.value, writes))

\* trackProgressWithEmotions once progressData is built from the analyses
trackRecorded(st, progressData, modelCalls, writes) ==
    trackValidated(st,
                   [Untouched(st) EXCEPT
                       !.outcome = "returned", !.value = progressData,
                       !.engagementLevels = progressData.emotionalJourney.engagementLevel,
                       !.modelCalls = modelCalls],
                   validateProgressData(progressData), writes)

\* trackProgressWithEmotions once the five analyses of Promise.all have settled
trackAnalysed(st, now, emotionalAnalysis, engagementLevels, sessionSummary, goals, improvements, writes) ==
    trackRecorded(st,
                  MkRecord(sessionSummary.value, toProgressGoals(goals.value),
                           improvements.value, now, emotionalAnalysis.value.emotions,
                           emotionalAnalysis.value.dominantEmotions,
                           engagementLevels.value),
                  emotionalAnalysis.attempts + engagementLevels.attempts
                  + sessionSummary.attempts + goals.attempts + improvements.attempts,
                  writes)

\* trackProgressWithEmotions(messages) on store st at time now
trackProgressWithEmotions(st, now, messages, env) ==
    IF noMessages(messages)
    THEN [Untouched(st) EXCEPT !.error = "No messages provided for progress tracking"]
    ELSE trackAnalysed(
             st, now,
             retryOperation(analysisOperation(analyzeEmotions(env.emotions)), MAX_RETRIES),
             retryOperation(analysisOperation(analyzeEngagement(env.engagement)), MAX_RETRIES),
             retryOperation(analysisOperation(analyzeSessionSummary(env.summary)), MAX_RETRIES),
             retryOperation(analysisOperation(analyzeGoals(env.goals)), MAX_RETRIES),
             retryOperation(analysisOperation(analyzeImprovements(env.improvements)),
                            MAX_RETRIES),
             env.writes)

\* The trace of an endSession call: that of a call plus the locals of endSession
EndTrace(t, latestProgress, fresh, trend) ==
    [ outcome |-> t.outcome, error |-> t.error, value |-> t.value, store |-> t.store,
      modelCalls |-> t.modelCalls, storeReads |-> t.storeReads,
      storeWrites |-> t.storeWrites, saves |-> t.saves,
      engagementLevels |-> t.engagementLevels,
      latestProgress |-> latestProgress, fresh |-> fresh,
      segments |-> trend.segments, engagementResults |-> trend.engagementResults ]

NoTrend == [segments |-> <<>>, engagementResults |-> <<>>, trend |-> <<>>]

\* The end of endSession once the save of finalProgress has settled
endSessionSaved(analysed, latestProgress, fresh, trend, save) ==
    IF save.raised
    THEN EndTrace([analysed EXCEPT !.outcome = "raised", !.error = save.error,
                                   !.value = NullRecord, !.saves = @ \o <<save>>,
                                   !.storeReads = @ + save.reads,
                                   !.storeWrites = @ + save.writes],
                  latestProgress, fresh, trend)
    ELSE EndTrace([analysed EXCEPT !.store = save.after, !.saves = @ \o <<save>>,
                                   !.storeReads = @ + save.reads,
                                   !.storeWrites = @ + save.writes],
                  latestProgress, fresh, trend)

\* await this.saveProgress(finalProgress); return finalProgress
endSessionFinal(read, latestProgress, trend, finalProgress, finalWrites) ==
    endSessionSaved([read EXCEPT !.modelCalls = @ + Len(trend.segments) + 1,
                                 !.value = finalProgress],
                    latestProgress, read.value, trend,
                    saveProgress(read.store, finalProgress, finalWrites))

finalProgressOfNewFirst(fresh, latestProgress, engagementTrend, sessionAnalysis) ==
    [fresh EXCEPT
        !.goals = IF ~IsNull(latestProgress)
                  THEN mergeGoals(latestProgress.goals, @)
                  ELSE @,
        !.emotionalJourney.emotions =
                  IF ~IsNull(latestProgress)
                  THEN @ \o latestProgress.emotionalJourney.emotions
                  ELSE @,
        !.emotionalJourney.engagementLevel = engagementTrend,
        !.sessionSummary = generateComprehensiveSummary(@, sessionAnalysis)]

\* finalProgress: the record trackProgressWithEmotions returned with the goals
\* merged, the prior emotions put first, the trend and the extended summary
finalProgressOf(fresh, latestProgress, engagementTrend, sessionAnalysis) ==
    [fresh EXCEPT
        !.goals = IF ~IsNull(latestProgress)
                  THEN mergeGoals(latestProgress.goals, @)
                  ELSE @,
        !.emotionalJourney.emotions =
                  IF ~IsNull(latestProgress)
                  THEN latestProgress.emotionalJourney.emotions \o @
                  ELSE @,
        !.emotionalJourney.engagementLevel = engagementTrend,
        !.sessionSummary = generateComprehensiveSummary(@, sessionAnalysis)]

\* endSession from the merge to the save of finalProgress
endSessionMerged(read, latestProgress, trend, sessionAnalysis, finalWrites) ==
    endSessionFinal(read, latestProgress, trend,
                    finalProgressOf(read.value, latestProgress, trend.trend,
                                    sessionAnalysis),
                    finalWrites)

\* endSession once the latest record is read and trackProgressWithEmotions has
\* settled: its error propagates
endSessionTracked(latestProgress, tracked, messages, env) ==
    IF tracked.outcome = "raised"
    THEN EndTrace([tracked EXCEPT !.storeReads = @ + 1], latestProgress, NullRecord,
                  NoTrend)
    ELSE endSessionMerged([tracked EXCEPT !.storeReads = @ + 1], latestProgress,
                          calculateEngagementTrend(messages.items, env.chunks),
                          analyzeSession(env.session), env.finalWrites)

\* endSession(messages) on store st at time now
endSession(st, now, messages, env) ==
    IF noMessages(messages)
    THEN EndTrace([Untouched(st) EXCEPT
                      !.error = "No messages provided for session analysis"],
                  NullRecord, NullRecord, NoTrend)
    ELSE endSessionTracked(getLatestProgress(st),
                           trackProgressWithEmotions(st, now, messages, env),
                           messages, env)

----------------------------------------------------------------------------
(* The two operations as the event loop runs them. The code between two awaits *)
(* runs without interruption; a call is suspended while the latest record is   *)
(* awaited, while the promises given to Promise.all are pending, and while     *)
(* saveProgress is. The state of the call in flight holds its position (pc),   *)
(* its inputs and its locals.                                                   *)

\* The array given to Promise.all by trackProgressWithEmotions, in its order
AnalysisNames == <<"emotions", "engagement", "summary", "goals", "improvements">>

\* The analysis of a name, given the outcome of its model call
analysisOf(name, call) ==
    CASE name = "emotions" -> analyzeEmotions(call)
      [] name = "engagement" -> analyzeEngagement(call)
      [] name = "summary" -> analyzeSessionSummary(call)
      [] name = "goals" -> analyzeGoals(call)
      [] name = "improvements" -> analyzeImprovements(call)

allSettledEarly(issued, settled) == settled # <<>>

\* Promise.all resolves once every promise of the array has resolved
allSettled(issued, settled) ==
    \A i \in 1..Len(issued) : \E j \in 1..Len(settled) : settled[j] = issued[i]

\* The values Promise.all resolves with: those of the promises in the order of
\* the array, whatever the order they resolved in
PromiseAll(issued, results) == [i \in 1..Len(issued) |-> results[issued[i]]]

\* A call of an operation, before its first statement
runInvoked(op, messages, env, st) ==
    [ pc |-> "invoked", op |-> op, messages |-> messages, env |-> env, before |-> st,
      latestProgress |-> NullRecord, issued |-> <<>>, settled |-> <<>>,
      results |-> <<>>, modelCalls |-> 0, fresh |-> NullRecord, segments |-> <<>>,
      chunksSettled |-> {}, engagementResults |-> <<>>, engagementTrend |-> <<>>,
      finalProgress |-> NullRecord, error |-> "none", value |-> NullRecord ]

\* throw, through the catch block that rethrows
runRaised(r, error) == [r EXCEPT !.pc = "raised", !.error = error]

runReturned(r, value) == [r EXCEPT !.pc = "returned", !.value = value]

\* trackProgressWithEmotions up to its await: the array of five promises is
\* built, which starts the five analyses, each up to its model call
trackIssue(r) ==
    [r EXCEPT !.pc = "analyses", !.issued = AnalysisNames,
              !.modelCalls = @ + Len(AnalysisNames)]

\* From the call to the first await
runBegin(r, st) ==
    IF noMessages(r.messages)
    THEN runRaised(r, IF r.op = "endSession"
                      THEN "No messages provided for session analysis"
                      ELSE "No messages provided for progress tracking")
    ELSE IF r.op = "endSession"
    THEN [r EXCEPT !.pc = "awaitLatest", !.latestProgress = getLatestProgress(st)]
    ELSE trackIssue(r)

\* The model call of one analysis returns or fails, and the promise of the
\* analysis resolves
runSettled(r, name, result) ==
    [r EXCEPT !.settled = Append(@, name), !.results = (name :> result) @@ @,
              !.modelCalls = @ + result.attempts - 1]

runSettle(r, name) ==
    runSettled(r, name,
               retryOperation(analysisOperation(analysisOf(name, r.env[name])),
                              MAX_RETRIES))

\* const [emotionalAnalysis, engagementLevels, sessionSummary, goals,
\* improvements] = await Promise.all([...]); const progressData = {...}
progressDataOf(all, now) ==
    MkRecord(all[3].value, toProgressGoals(all[4].value), all[5].value, now,
             all[1].value.emotions, all[1].value.dominantEmotions, all[2].value)

\* saveProgress(progressData) is called and runs up to its await
saveStarted(st, progressData, writes) ==
    [c \in {"save"} |-> saveBegin(st, saveCalled(progressData, writes))]

\* trackProgressWithEmotions has returned r.fresh: it is the result of the call,
\* or endSession goes on to calculateEngagementTrend, which starts one
\* analyzeEngagement per segment
runTracked(r, p, segments) ==
    IF r.op = "trackProgressWithEmotions"
    THEN [run |-> runReturned(r, r.fresh), pending |-> p]
    ELSE [run |-> [r EXCEPT !.pc = "chunks", !.segments = segments,
                            !.modelCalls = @ + Len(segments)],
          pending |-> p]

\* After Promise.all: the record is validated and, when valid, saved
runValidated(r, st, valid) ==
    IF valid = "throws" THEN [run |-> runRaised(r, "TypeError"), pending |-> NoPending]
    ELSE IF valid = "false"
    THEN runTracked(r, NoPending, splitMessagesIntoSegments(r.messages.items))
    ELSE [run |-> [r EXCEPT !.pc = "saving"],
          pending |-> saveStarted(st, r.fresh, r.env.writes)]

runAssembled(r, st, progressData) ==
    runValidated([r EXCEPT !.fresh = progressData], st,
                 validateProgressData(progressData))

runJoin(r, st, now) ==
    runAssembled(r, st, progressDataOf(PromiseAll(r.issued, r.results), now))

\* saveProgress has settled: its error propagates; otherwise the call goes on
runSaveSettled(r, p) ==
    IF p["save"].pc = "raised" THEN [run |-> runRaised(r, p["save"].error), pending |-> p]
    ELSE IF r.pc = "saving"
    THEN runTracked(r, p, splitMessagesIntoSegments(r.messages.items))
    ELSE [run |-> runReturned(r, r.finalProgress), pending |-> p]

\* The model call for one segment returns or fails
runSettleChunk(r, k) ==
    [r EXCEPT !.chunksSettled = @ \cup {k},
              !.engagementResults = (k :> analyzeEngagement(r.env.chunks[k])) @@ @]

\* await Promise.all(engagementPromises) resolves: the trend is the average,
\* and analyzeSession makes its model call
runJoinChunks(r) ==
    [r EXCEPT !.pc = "session",
              !.engagementTrend =
                  averageEngagementLevels(
                      [k \in 1..Len(r.segments) |-> r.engagementResults[k]]),
              !.modelCalls = @ + 1]

runFinal(r, st, finalProgress) ==
    [ run |-> [r EXCEPT !.pc = "finalSaving", !.finalProgress = finalProgress],
      pending |-> saveStarted(st, finalProgress, r.env.finalWrites) ]

\* The model call of analyzeSession returns or fails: the summary is extended
\* and saveProgress(finalProgress) is called
runSettleSession(r, st) ==
    runFinal(r, st, finalProgressOf(r.fresh, r.latestProgress, r.engagementTrend,
                                    analyzeSession(r.env.session)))

----------------------------------------------------------------------------
(* Outcomes of the calls to the model and to localStorage used as inputs *)

ModelDown == Rejected("model unavailable")

\* "10:00|anxious|7", a line without pipe, "10:05|calm|high", "10:07||3",
\* then "Distribution: anxious: 60% calm: 40%"
EmotionsResponse ==
    [ lines |-> << [hasPipe |-> TRUE, timestamp |-> "10:00", emotion |-> "anxious",
                    value |-> <<Digits(<<7>>)>>],
                   [hasPipe |-> FALSE, timestamp |-> "Emotions", emotion |-> "",
                    value |-> <<>>],
                   [hasPipe |-> TRUE, timestamp |-> "10:05", emotion |-> "calm",
                    value |-> <<Word>>],
                   [hasPipe |-> TRUE, timestamp |-> "10:07", emotion |-> "",
                    value |-> <<Digits(<<3>>)>>] >>,
      distribution |-> << [emotion |-> "anxious", digits |-> <<6, 0>>],
                          [emotion |-> "calm", digits |-> <<4, 0>>] >> ]

\* "85,70,65,75,80"
EngagementResponse ==
    <<Digits(<<8, 5>>), Digits(<<7, 0>>), Digits(<<6, 5>>), Digits(<<7, 5>>),
      Digits(<<8, 0>>)>>

\* "Scores: 90 then 60 and 30"
ShortEngagementResponse == <<Word, Digits(<<9, 0>>), Word, Digits(<<6, 0>>), Digits(<<3, 0>>)>>

\* "101, 7, 8, 9, 10, 11"
LongEngagementResponse ==
    <<Digits(<<1, 0, 1>>), Digits(<<7>>), Digits(<<8>>), Digits(<<9>>),
      Digits(<<1, 0>>), Digits(<<1, 1>>)>>

SummaryResponse ==
    << <<>>, <<"1. Talked about sleep">>, <<"2. Plans to exercise">>, <<>> >>

ImprovementsResponse ==
    << [label |-> "Strengths:", lines |-> << [bullet |-> TRUE, text |-> "persistent"],
                                              [bullet |-> FALSE, text |-> "note"] >>],
       [label |-> "Intro", lines |-> << [bullet |-> TRUE, text |-> "ignored"] >>],
       [label |-> "Recommendations:", lines |-> << [bullet |-> TRUE, text |-> "walk daily"] >>] >>

SessionResponse ==
    << [keyword |-> "emotional state", afterColon |-> "hopeful", items |-> <<>>],
       [keyword |-> "key topics", afterColon |-> "", items |-> <<"sleep", "", "work">>],
       [keyword |-> "insights", afterColon |-> "", items |-> <<"rest matters">>] >>

SB40 == GoalBlock("Sleep better", "rest", TRUE, <<4, 0>>, "in-progress")

SB70 == GoalBlock("Sleep better ", "rest", TRUE, <<7, 0>>, "")

EX20 == GoalBlock("Exercise", "move", TRUE, <<2, 0>>, "not-started")

EX150 == GoalBlock("Exercise", "move", TRUE, <<1, 5, 0>>, "in-progress")

EX0 == GoalBlock("Exercise", "move", FALSE, <<>>, "achieved")

TitleOnly == GoalBlock("Journal", "", TRUE, <<5, 0>>, "in-progress")

GoalResponses ==
    { <<>>, <<SB40>>, <<SB70, EX20>>, <<EX150>>, <<EX0, TitleOnly>>,
      <<SB40, SB70>>, <<EX20, EX150>> }

WritesOk == [k \in 1..(MAX_RETRIES + 1) |-> Resolved("undefined")]

WritesFail == [k \in 1..(MAX_RETRIES + 1) |-> Rejected("QuotaExceededError")]

\* the first MAX_RETRIES writes fail, the last one succeeds
WritesRecover ==
    [k \in 1..(MAX_RETRIES + 1) |->
        IF k <= MAX_RETRIES THEN Rejected("SecurityError") ELSE Resolved("undefined")]

\* An environment in which every call succeeds
CalmEnv ==
    [ emotions |-> Resolved(EmotionsResponse),
      engagement |-> Resolved(EngagementResponse),
      summary |-> Resolved(SummaryResponse),
      goals |-> Resolved(<<SB40>>),
      improvements |-> Resolved(ImprovementsResponse),
      chunks |-> [k \in 1..SEGMENT_COUNT |-> Resolved(ShortEngagementResponse)],
      session |-> Resolved(SessionResponse),
      writes |-> WritesOk,
      finalWrites |-> WritesOk ]

----------------------------------------------------------------------------
(* State *)

NoProbe == [fn |-> "none", retries |-> 0, input |-> <<>>, output |-> <<>>, done |-> FALSE]

\* The trace of a public call: its name, inputs, the store before it, and what
\* the call did
CallTrace(op, messages, env, before, trace) ==
    [op |-> op, messages |-> messages, env |-> env, before |-> before] @@ trace

NoCall ==
    CallTrace("none", NotAList, CalmEnv, MissingKey,
              EndTrace([Untouched(MissingKey) EXCEPT !.outcome = "none"],
                       NullRecord, NullRecord, NoTrend))

\* The application starts with nothing stored
Init ==
    /\ store = MissingKey
    /\ clock = 1
    /\ opCount = 0
    /\ last = NoCall
    /\ probe = NoProbe
    /\ pending = NoPending
    /\ run = NoRun

----------------------------------------------------------------------------
(* Actions: one per public operation *)

\* A public call settles: the store is as the call left it, the trace is kept
Called(op, messages, env, trace) ==
    /\ store' = trace.store
    /\ last' = CallTrace(op, messages, env, store, trace)
    /\ clock' = clock + 1
    /\ opCount' = opCount + 1
    /\ UNCHANGED <<probe, pending, run>>

TrackProgressWithEmotions(messages, env) ==
    Called("trackProgressWithEmotions", messages, env,
           EndTrace(trackProgressWithEmotions(store, clock, messages, env),
                    NullRecord, NullRecord, NoTrend))

EndSession(messages, env) ==
    Called("endSession", messages, env, endSession(store, clock, messages, env))

\* The trace of a direct saveProgress call
SaveTrace(save) ==
    EndTrace([Untouched(save.after) EXCEPT
                 !.outcome = IF save.raised THEN "raised" ELSE "returned",
                 !.error = save.error,
                 !.saves = <<save>>,
                 !.storeReads = save.reads,
                 !.storeWrites = save.writes],
             NullRecord, NullRecord, NoTrend)

SaveProgress(progressData, writes) ==
    Called("saveProgress", NotAList, [CalmEnv EXCEPT !.writes = writes],
           SaveTrace(saveProgress(store, progressData, writes)))

----------------------------------------------------------------------------
(* Spec: sessions from an empty store. The goals response and the storage     *)
(* outcome vary from call to call; the other model calls succeed.             *)

SessionMessages == {NotAList, MessageList(0), MessageList(3)}

GoalCalls == {ModelDown} \cup {Resolved(r) : r \in GoalResponses}

TrackEnvs ==
    {[CalmEnv EXCEPT !.goals = g, !.writes = w] :
        g \in GoalCalls, w \in {WritesOk, WritesFail}}

EndEnvs ==
    {[e EXCEPT !.finalWrites = w] : e \in TrackEnvs, w \in {WritesOk, WritesFail}}

TrackCall ==
    /\ opCount < MaxOps
    /\ \E messages \in SessionMessages, env \in TrackEnvs :
           TrackProgressWithEmotions(messages, env)

EndCall ==
    /\ opCount < MaxOps
    /\ \E messages \in SessionMessages, env \in EndEnvs :
           EndSession(messages, env)

Next == TrackCall \/ EndCall

Spec == Init /\ [][Next]_vars

----------------------------------------------------------------------------
(* SpecCall: one call of the aggregator or of endSession on an empty store,   *)
(* for every subset of failing model calls, every message count up to         *)
(* MaxMessages and several storage outcomes.                                   *)

CallMessages == {NotAList} \cup {MessageList(n) : n \in 0..MaxMessages}

ChunkCalls == {ModelDown, Resolved(ShortEngagementResponse), Resolved(LongEngagementResponse)}

WideTrackEnvs ==
    {[CalmEnv EXCEPT !.emotions = e, !.engagement = g, !.summary = s, !.goals = o,
                     !.improvements = i, !.writes = w] :
        e \in {ModelDown, Resolved(EmotionsResponse)},
        g \in {ModelDown, Resolved(EngagementResponse)},
        s \in {ModelDown, Resolved(SummaryResponse)},
        o \in {ModelDown, Resolved(<<SB70, EX150>>)},
        i \in {ModelDown, Resolved(ImprovementsResponse)},
        w \in {WritesOk, WritesFail}}

WideEndEnvs ==
    {[e EXCEPT !.chunks = c, !.session = a, !.finalWrites = w] :
        e \in WideTrackEnvs,
        c \in [1..SEGMENT_COUNT -> ChunkCalls],
        a \in {ModelDown, Resolved(SessionResponse)},
        w \in {WritesOk, WritesFail, WritesRecover}}

OneTrackCall ==
    /\ last.op = "none"
    /\ \E messages \in CallMessages, env \in WideTrackEnvs :
           TrackProgressWithEmotions(messages, env)

OneEndCall ==
    /\ last.op = "none"
    /\ \E messages \in CallMessages, env \in WideEndEnvs :
           EndSession(messages, env)

NextCall == OneTrackCall \/ OneEndCall

SpecCall == Init /\ [][NextCall]_vars

----------------------------------------------------------------------------
(* SpecStore: saves onto whatever the storage key may hold: no value, text    *)
(* that is not JSON, JSON that is not a list, and lists of up to              *)
(* HISTORY_LIMIT items some of which are not progress records.                *)

ValidHistory(n) == [i \in 1..n |-> BlankRecord(i)]

\* a record without goals; the value null; a record whose improvements is null;
\* a number
BadItems ==
    { Shaped([GoodTypes EXCEPT !.goals = "undefined"], 0),
      NullRecord,
      Shaped([GoodTypes EXCEPT !.improvements = "null", !.strengths = "undefined",
                               !.challenges = "undefined",
                               !.recommendations = "undefined"], 0),
      Shaped([Undefined EXCEPT !.self = "number"], 0) }

StoredLengths == {0, 1, 2, HISTORY_LIMIT - 1, HISTORY_LIMIT}

InitialStores ==
    {MissingKey, GarbageText, NonListText}
    \cup {JSONstringify(ValidHistory(n)) : n \in StoredLengths}
    \cup {JSONstringify([ValidHistory(n) EXCEPT ![k] = b]) :
             n \in StoredLengths \ {0}, k \in {1}, b \in BadItems}
    \cup {JSONstringify([ValidHistory(n) EXCEPT ![n] = b]) :
             n \in StoredLengths \ {0}, b \in BadItems}

InitStore ==
    /\ store \in InitialStores
    /\ clock = HISTORY_LIMIT + 1
    /\ opCount = 0
    /\ last = NoCall
    /\ probe = NoProbe
    /\ pending = NoPending
    /\ run = NoRun

SaveCall ==
    /\ opCount < MaxStoreOps
    /\ \E progressData \in {BlankRecord(clock)} \cup BadItems,
          writes \in {WritesOk, WritesFail, WritesRecover} :
           SaveProgress(progressData, writes)

StoreTrackCall ==
    /\ opCount < MaxStoreOps
    /\ \E w \in {WritesOk, WritesFail} :
           TrackProgressWithEmotions(MessageList(1), [CalmEnv EXCEPT !.writes = w])

StoreEndCall ==
    /\ opCount < MaxStoreOps
    /\ \E w \in {WritesOk, WritesFail}, f \in {WritesOk, WritesFail} :
           EndSession(MessageList(1), [CalmEnv EXCEPT !.writes = w, !.finalWrites = f])

NextStore == SaveCall \/ StoreTrackCall \/ StoreEndCall

SpecStore == InitStore /\ [][NextStore]_vars

----------------------------------------------------------------------------
(* SpecEngagement: analyzeEngagement on every response of up to MaxTokens     *)
(* words, and on a failed model call.                                          *)

\* a word without digits, "0", "085", "101"
EngagementWords == {Word, Digits(<<0>>), Digits(<<0, 8, 5>>), Digits(<<1, 0, 1>>)}

EngagementCalls ==
    {ModelDown}
    \cup {Resolved(r) : r \in UNION {[1..n -> EngagementWords] : n \in 0..MaxTokens}}

InitEngagement ==
    /\ store = MissingKey
    /\ clock = 1
    /\ opCount = 0
    /\ last = NoCall
    /\ probe \in {[NoProbe EXCEPT !.fn = "analyzeEngagement", !.input = c] :
                     c \in EngagementCalls}
    /\ pending = NoPending
    /\ run = NoRun

AnalyzeEngagement ==
    /\ probe.fn = "analyzeEngagement"
    /\ ~probe.done
    /\ probe' = [probe EXCEPT !.output = analyzeEngagement(probe.input), !.done = TRUE]
    /\ UNCHANGED <<store, clock, opCount, last, pending, run>>

NextEngagement == AnalyzeEngagement

SpecEngagement == InitEngagement /\ [][NextEngagement]_vars

----------------------------------------------------------------------------
(* SpecGoals: analyzeGoals on a failed call and on every response of up to    *)
(* MaxBlocks blocks, each with or without each of the four fields.            *)

\* "Progress: 40%", "Progress: 150%", or no such line
BlockProgress ==
    { [matched |-> FALSE, digits |-> <<>>],
      [matched |-> TRUE, digits |-> <<4, 0>>],
      [matched |-> TRUE, digits |-> <<1, 5, 0>>] }

Blocks ==
    {GoalBlock(title, description, p.matched, p.digits, status) :
        title \in {"", "Sleep better "}, description \in {"", "rest"},
        p \in BlockProgress, status \in {"", "achieved"}}

GoalProbes ==
    {ModelDown} \cup
    UNION {{Resolved(blocks) : blocks \in [1..n -> Blocks]} : n \in 0..MaxBlocks}

InitGoals ==
    /\ store = MissingKey
    /\ clock = 1
    /\ opCount = 0
    /\ last = NoCall
    /\ probe \in {[NoProbe EXCEPT !.fn = "analyzeGoals", !.input = c] : c \in GoalProbes}
    /\ pending = NoPending
    /\ run = NoRun

AnalyzeGoals ==
    /\ probe.fn = "analyzeGoals"
    /\ ~probe.done
    /\ probe' = [probe EXCEPT !.output = analyzeGoals(probe.input), !.done = TRUE]
    /\ UNCHANGED <<store, clock, opCount, last, pending, run>>

NextGoals == AnalyzeGoals

SpecGoals == InitGoals /\ [][NextGoals]_vars

----------------------------------------------------------------------------
(* SpecMerge: mergeGoals on every list of up to MaxGoals previous goals with  *)
(* distinct names and every list of up to MaxGoals new goals, where names may *)
(* repeat.                                                                     *)

\* Goals as trackProgressWithEmotions builds them
GoalValues ==
    {[goal |-> name, progress |-> p, status |-> determineGoalStatus(p)] :
        name \in {"Sleep better", "Exercise", "Journal"}, p \in {20, 70}}

GoalLists == UNION {[1..n -> GoalValues] : n \in 0..MaxGoals}

PreviousGoalLists ==
    {goals \in GoalLists :
        \A i, j \in 1..Len(goals) : goals[i].goal = goals[j].goal => i = j}

InitMerge ==
    /\ store = MissingKey
    /\ clock = 1
    /\ opCount = 0
    /\ last = NoCall
    /\ probe \in {[NoProbe EXCEPT !.fn = "mergeGoals",
                                  !.input = [previousGoals |-> p, newGoals |-> n]] :
                     p \in PreviousGoalLists, n \in GoalLists}
    /\ pending = NoPending
    /\ run = NoRun

MergeGoalLists ==
    /\ probe.fn = "mergeGoals"
    /\ ~probe.done
    /\ probe' = [probe EXCEPT
                    !.output = mergeGoals(probe.input.previousGoals, probe.input.newGoals),
                    !.done = TRUE]
    /\ UNCHANGED <<store, clock, opCount, last, pending, run>>

NextMerge == MergeGoalLists

SpecMerge == InitMerge /\ [][NextMerge]_vars

----------------------------------------------------------------------------
(* SpecRetry: retryOperation for every retry budget up to MaxBudget and every *)
(* sequence of outcomes of the operation's invocations.                        *)

AttemptOutcomes == {Resolved("a"), Resolved("b"), Rejected("e1"), Rejected("e2")}

InitRetry ==
    /\ store = MissingKey
    /\ clock = 1
    /\ opCount = 0
    /\ last = NoCall
    /\ probe \in {[NoProbe EXCEPT !.fn = "retryOperation", !.retries = r, !.input = o] :
                     r \in 0..MaxBudget, o \in [1..(MaxBudget + 1) -> AttemptOutcomes]}
    /\ pending = NoPending
    /\ run = NoRun

RetryOperation ==
    /\ probe.fn = "retryOperation"
    /\ ~probe.done
    /\ probe' = [probe EXCEPT !.output = retryOperation(probe.input, probe.retries),
                              !.done = TRUE]
    /\ UNCHANGED <<store, clock, opCount, last, pending, run>>

NextRetry == RetryOperation

SpecRetry == InitRetry /\ [][NextRetry]_vars

----------------------------------------------------------------------------
(* SpecRead: the two readers on whatever the storage key may hold: no value,  *)
(* text that is not JSON, JSON that is not a list, and every list of up to    *)
(* MaxStored items drawn from progress records and values that are none.      *)

StoredItems == {BlankRecord(1), BlankRecord(2)} \cup BadItems

ReadStores ==
    {MissingKey, GarbageText, NonListText}
    \cup {JSONstringify(list) :
             list \in UNION {[1..n -> StoredItems] : n \in 0..MaxStored}}

InitRead ==
    /\ store \in ReadStores
    /\ clock = 1
    /\ opCount = 0
    /\ last = NoCall
    /\ probe = NoProbe
    /\ pending = NoPending
    /\ run = NoRun

GetProgressHistory ==
    /\ probe.fn # "getProgressHistory"
    /\ probe' = [NoProbe EXCEPT !.fn = "getProgressHistory", !.input = store,
                                !.output = getProgressHistory(store), !.done = TRUE]
    /\ UNCHANGED <<store, clock, opCount, last, pending, run>>

GetLatestProgress ==
    /\ probe.fn # "getLatestProgress"
    /\ probe' = [NoProbe EXCEPT !.fn = "getLatestProgress", !.input = store,
                                !.output = getLatestProgress(store), !.done = TRUE]
    /\ UNCHANGED <<store, clock, opCount, last, pending, run>>

NextRead == GetProgressHistory \/ GetLatestProgress

SpecRead == InitRead /\ [][NextRead]_vars

----------------------------------------------------------------------------
(* SpecOverlap: two saveProgress calls made by one tab without awaiting the   *)
(* first, interleaved at their awaits in every order.                          *)

OverlapStores == {MissingKey, JSONstringify(ValidHistory(1))}

OverlapWrites == {WritesOk, WritesFail, WritesRecover}

InitOverlap ==
    /\ store \in OverlapStores
    /\ clock = 1
    /\ opCount = 0
    /\ last = NoCall
    /\ probe = NoProbe
    /\ pending \in {[c \in {"first", "second"} |->
                        saveCalled(BlankRecord(IF c = "first" THEN 11 ELSE 12),
                                   IF c = "first" THEN w1 ELSE w2)] :
                       w1 \in OverlapWrites, w2 \in OverlapWrites}
    /\ run = NoRun

\* A step of a saveProgress call leaves the store and the activation
Stepped(c, st, activation) ==
    /\ store' = st
    /\ pending' = [pending EXCEPT ![c] = activation]
    /\ UNCHANGED <<clock, opCount, last, probe, run>>

BeginSave(c) ==
    /\ pending[c].pc = "called"
    /\ Stepped(c, store, saveBegin(store, pending[c]))

SteppedTo(c, next) == Stepped(c, next.store, next.activation)

ResumeSave(c) ==
    /\ pending[c].pc = "awaitHistory"
    /\ SteppedTo(c, saveResume(store, pending[c]))

RetrySave(c) ==
    /\ pending[c].pc = "delay"
    /\ SteppedTo(c, saveRetry(store, pending[c]))

BeginSaveCall == \E c \in DOMAIN pending : BeginSave(c)

ResumeSaveCall == \E c \in DOMAIN pending : ResumeSave(c)

RetrySaveCall == \E c \in DOMAIN pending : RetrySave(c)

NextOverlap == BeginSaveCall \/ ResumeSaveCall \/ RetrySaveCall

SpecOverlap == InitOverlap /\ [][NextOverlap]_vars

----------------------------------------------------------------------------
(* SpecSteps: one call of trackProgressWithEmotions or endSession, step by    *)
(* step, on an empty store or on the store an earlier session left. The       *)
(* promises of the analyses resolve in every order. Every call to the model   *)
(* and to the store returns or fails, and the event loop runs what is ready:  *)
(* every step that stays possible is taken.                                    *)

\* "09:00|sad|4", then "Distribution: sad: 100%"
PriorEmotionsResponse ==
    [ lines |-> << [hasPipe |-> TRUE, timestamp |-> "09:00", emotion |-> "sad",
                    value |-> <<Digits(<<4>>)>>] >>,
      distribution |-> << [emotion |-> "sad", digits |-> <<1, 0, 0>>] >> ]

\* "10:00|anxious|99...9" with a run of 310 digits, then
\* "Distribution: anxious: 60%"
HugeEmotionsResponse ==
    [ lines |-> << [hasPipe |-> TRUE, timestamp |-> "10:00", emotion |-> "anxious",
                    value |-> <<Digits([i \in 1..(MAX_VALUE_DIGITS + 1) |-> 9])>>] >>,
      distribution |-> << [emotion |-> "anxious", digits |-> <<6, 0>>] >> ]

\* The store after an earlier trackProgressWithEmotions call
PriorStore ==
    trackProgressWithEmotions(
        MissingKey, 0, MessageList(1),
        [CalmEnv EXCEPT !.emotions = Resolved(PriorEmotionsResponse),
                        !.goals = Resolved(<<SB70, EX20>>)]).store

StepMessages == {NotAList, MessageList(0), MessageList(2)}

StepEnvs ==
    {[CalmEnv EXCEPT !.emotions = e, !.goals = g, !.writes = w, !.finalWrites = f] :
        e \in {Resolved(EmotionsResponse), Resolved(HugeEmotionsResponse)},
        g \in {ModelDown, Resolved(<<SB40, EX150>>)},
        w \in {WritesOk, WritesFail, WritesRecover},
        f \in {WritesOk, WritesFail}}

InitSteps ==
    /\ store \in {MissingKey, PriorStore}
    /\ clock = 1
    /\ opCount = 0
    /\ last = NoCall
    /\ probe = NoProbe
    /\ pending = NoPending
    /\ run = NoRun

\* A step of the call in flight
RunStepped(r) ==
    /\ run' = r
    /\ UNCHANGED <<store, clock, opCount, last, probe, pending>>

\* A step of the call in flight that calls saveProgress or sees it settle
RunSteppedTo(next) ==
    /\ run' = next.run
    /\ pending' = next.pending
    /\ UNCHANGED <<store, clock, opCount, last, probe>>

Invoke ==
    /\ run.pc = "idle"
    /\ \E op \in {"trackProgressWithEmotions", "endSession"},
          messages \in StepMessages, env \in StepEnvs :
           RunStepped(runBegin(runInvoked(op, messages, env, store), store))

ResumeTrack ==
    /\ run.pc = "awaitLatest"
    /\ RunStepped(trackIssue(run))

Settle ==
    /\ run.pc = "analyses"
    /\ \E i \in 1..Len(run.issued) :
           /\ \A j \in 1..Len(run.settled) : run.settled[j] # run.issued[i]
           /\ RunStepped(runSettle(run, run.issued[i]))

Join ==
    /\ run.pc = "analyses"
    /\ allSettled(run.issued, run.settled)
    /\ RunSteppedTo(runJoin(run, store, clock))

SaveSettled ==
    /\ run.pc \in {"saving", "finalSaving"}
    /\ pending["save"].pc \in {"saved", "raised"}
    /\ RunSteppedTo(runSaveSettled(run, pending))

SettleChunk ==
    /\ run.pc = "chunks"
    /\ \E k \in 1..Len(run.segments) :
           /\ k \notin run.chunksSettled
           /\ RunStepped(runSettleChunk(run, k))

JoinChunks ==
    /\ run.pc = "chunks"
    /\ run.chunksSettled = 1..Len(run.segments)
    /\ RunStepped(runJoinChunks(run))

SettleSession ==
    /\ run.pc = "session"
    /\ RunSteppedTo(runSettleSession(run, store))

NextSteps ==
    \/ Invoke
    \/ ResumeTrack
    \/ Settle
    \/ Join
    \/ ResumeSaveCall
    \/ RetrySaveCall
    \/ SaveSettled
    \/ SettleChunk
    \/ JoinChunks
    \/ SettleSession

SpecSteps == InitSteps /\ [][NextSteps]_vars /\ WF_vars(NextSteps)

----------------------------------------------------------------------------
(* SpecLive: the steps of SpecSteps for one call on an empty store, where the *)
(* goal analysis and the writes to the store may fail. The event loop runs    *)
(* every continuation that is ready, so a step that stays possible is taken.  *)

LiveMessages == {MessageList(0), MessageList(2)}

LiveEnvs ==
    { [CalmEnv EXCEPT !.goals = ModelDown],
      [CalmEnv EXCEPT !.writes = WritesRecover, !.finalWrites = WritesFail] }

InitLive ==
    /\ store = MissingKey
    /\ clock = 1
    /\ opCount = 0
    /\ last = NoCall
    /\ probe = NoProbe
    /\ pending = NoPending
    /\ run = NoRun

InvokeLive ==
    /\ run.pc = "idle"
    /\ \E op \in {"trackProgressWithEmotions", "endSession"},
          messages \in LiveMessages, env \in LiveEnvs :
           RunStepped(runBegin(runInvoked(op, messages, env, store), store))

NextLive ==
    \/ InvokeLive
    \/ ResumeTrack
    \/ Settle
    \/ Join
    \/ ResumeSaveCall
    \/ RetrySaveCall
    \/ SaveSettled
    \/ SettleChunk
    \/ JoinChunks
    \/ SettleSession

SpecLive == InitLive /\ [][NextLive]_vars /\ WF_vars(NextLive)

----------------------------------------------------------------------------
(* Properties *)

\* The records a call handed back or left in the store
Returned == IF last.outcome = "returned" /\ ~IsNull(last.value) THEN {last.value} ELSE {}

Persisted == {store.items[i] : i \in 1..Len(store.items)}

\* The save calls the last public call made
Saves == {last.saves[k] : k \in 1..Len(last.saves)}

\* The last call was given no message: something that is no list, or an empty list
NoMessagesGiven == ~last.messages.isArray \/ last.messages.items = <<>>

AllValid(list) == \A i \in 1..Len(list) : validateProgressData(list[i]) = "true"

\* C1: the persisted history never holds more than 50 records, and a save onto a
\* history of 50 valid records drops the oldest record, keeps the other 49 in
\* their order and puts the new record last.
C1_HistoryCapped ==
    /\ Len(store.items) <= HISTORY_LIMIT
    /\ Len(getProgressHistory(store)) <= HISTORY_LIMIT
    /\ \A s \in Saves :
           (~s.raised /\ s.before.kind = "array"
              /\ Len(s.before.items) = HISTORY_LIMIT /\ AllValid(s.before.items))
           => /\ Len(s.after.items) = HISTORY_LIMIT
              /\ s.after.items[HISTORY_LIMIT] = s.data
              /\ \A i \in 1..(HISTORY_LIMIT - 1) : s.after.items[i] = s.before.items[i + 1]
              /\ \A i \in 1..HISTORY_LIMIT : s.after.items[i] # s.before.items[1]

\* a save through endSession evicted the oldest of 50 valid records
C1_Witness ==
    /\ last.op = "endSession"
    /\ \E s \in Saves :
           /\ ~s.raised
           /\ Len(s.before.items) = HISTORY_LIMIT
           /\ AllValid(s.before.items)
           /\ s.before.items[1] = BlankRecord(1)
           /\ store.items[1] # BlankRecord(1)

\* The status the data model assigns to a progress value
StatusOf(progress) ==
    CASE progress = 0 -> "not-started"
      [] progress = 100 -> "achieved"
      [] OTHER -> "in-progress"

\* C2: from an empty store, every goal of every returned and every persisted
\* record has the status its progress determines: not-started iff 0, achieved
\* iff 100, in-progress otherwise.
C2_StatusFollowsProgress ==
    \A r \in Returned \cup Persisted :
        \A i \in 1..Len(r.goals) :
            /\ r.goals[i].status = StatusOf(r.goals[i].progress)
            /\ (r.goals[i].status = "not-started") <=> (r.goals[i].progress = 0)
            /\ (r.goals[i].status = "achieved") <=> (r.goals[i].progress = 100)

\* endSession returned a record that carries a prior goal through the merge
\* unchanged, next to an achieved goal
C2_Witness ==
    /\ last.op = "endSession"
    /\ last.outcome = "returned"
    /\ ~IsNull(last.latestProgress)
    /\ \E i \in 1..Len(last.latestProgress.goals) :
           /\ \A k \in 1..Len(last.fresh.goals) :
                  last.fresh.goals[k].goal # last.latestProgress.goals[i].goal
           /\ last.value.goals[i] = last.latestProgress.goals[i]
           /\ last.value.goals[i].status = "in-progress"
    /\ \E j \in 1..Len(last.value.goals) : last.value.goals[j].status = "achieved"
    /\ last.value \in Persisted


\* The largest progress among the goals of list named name (0 when there is none)
MaxProgress(list, name) ==
    LET ps == {list[k].progress : k \in {k \in 1..Len(list) : list[k].goal = name}}
    IN  IF ps = {} THEN 0 ELSE CHOOSE m \in ps : \A q \in ps : q <= m

Named(list, name) == \E k \in 1..Len(list) : list[k].goal = name

FirstOfItsName(list, i) == \A j \in 1..(i - 1) : list[j].goal # list[i].goal

\* The merge as C3 words it: every prior goal raised to the larger progress,
\* then every new goal whose name matches no prior goal
MergeAsClaimed(prior, new) ==
    [i \in 1..Len(prior) |->
        LET progress == MathMax(prior[i].progress, MaxProgress(new, prior[i].goal))
        IN  [goal |-> prior[i].goal, progress |-> progress, status |-> StatusOf(progress)]]
    \o SelectSeq(new, LAMBDA g : ~Named(prior, g.goal))

\* The merge as amended: only the first prior goal of a name is raised, and the
\* new goals that match no prior goal are folded into one entry per name
MergeAsAmended(prior, new) ==
    LET firsts == SelectSeq([k \in 1..Len(new) |-> k],
                            LAMBDA k : ~Named(prior, new[k].goal) /\ FirstOfItsName(new, k))
    IN  [i \in 1..Len(prior) |->
            IF FirstOfItsName(prior, i) /\ Named(new, prior[i].goal)
            THEN LET progress == MathMax(prior[i].progress,
                                         MaxProgress(new, prior[i].goal))
                 IN  [ goal |-> prior[i].goal, progress |-> progress,
                       status |-> StatusOf(progress) ]
            ELSE prior[i]]
        \o [j \in 1..Len(firsts) |->
               LET progress == MaxProgress(new, new[firsts[j]].goal)
               IN  [ goal |-> new[firsts[j]].goal, progress |-> progress,
                     status |-> StatusOf(progress) ]]

\* endSession returned a record and had found a prior record with goals
MergedAfterPrior ==
    /\ last.op = "endSession"
    /\ last.outcome = "returned"
    /\ ~IsNull(last.latestProgress)
    /\ Len(last.latestProgress.goals) > 0

\* C3 as claimed: the goals endSession returns are the prior goals in their order,
\* each with the larger of its progress and that of the new goal of the same
\* name, followed by the new goals whose name matches no prior goal.
C3_MergeAsClaimed ==
    MergedAfterPrior
    => last.value.goals = MergeAsClaimed(last.latestProgress.goals, last.fresh.goals)

\* C3 amended: the goals endSession returns are the prior goals in their order,
\* the first prior goal of each name raised to the largest progress among it and
\* the new goals of that name (a prior goal repeating an earlier name is kept as
\* it is), followed by one goal per distinct new name that matches no prior goal,
\* in order of first occurrence, with the largest progress of the new goals of
\* that name; a raised or folded goal has the status of its progress.
C3_MergeAmended ==
    (last.op = "endSession" /\ last.outcome = "returned" /\ ~IsNull(last.latestProgress))
    => last.value.goals = MergeAsAmended(last.latestProgress.goals, last.fresh.goals)

\* prior [Sleep better 40] merged with new [Sleep better 70, Exercise 20]
C3_Witness ==
    /\ MergedAfterPrior
    /\ last.latestProgress.goals =
           << [goal |-> "Sleep better", progress |-> 40, status |-> "in-progress"] >>
    /\ last.fresh.goals =
           << [goal |-> "Sleep better", progress |-> 70, status |-> "in-progress"],
              [goal |-> "Exercise", progress |-> 20, status |-> "in-progress"] >>
    /\ last.value.goals = last.fresh.goals

\* base 10 value of a run of digits
DecimalValue(digits) ==
    LET n == Len(digits)
        partial[k \in 0..n] == IF k = 0 THEN 0 ELSE partial[k - 1] + digits[k] * 10^(n - k)
    IN  partial[n]

\* C4: retryOperation with budget r invokes the operation again only after a
\* failed attempt; the first successful attempt ends it with that attempt's
\* result; when all r + 1 attempts fail it raises the last attempt's failure.
C4_RetryContract ==
    (probe.fn = "retryOperation" /\ probe.done)
    => LET r == probe.retries
           operation == probe.input
           out == probe.output
       IN  /\ out.attempts \in 1..(r + 1)
           /\ \A k \in 1..(out.attempts - 1) : ~operation[k].ok
           /\ out.ok <=> (\E k \in 1..(r + 1) : operation[k].ok)
           /\ out.ok => /\ operation[out.attempts].ok
                        /\ out.value = operation[out.attempts].value
           /\ ~out.ok => /\ out.attempts = r + 1
                         /\ out.error = operation[r + 1].error

\* the default budget, four failed attempts, the last failure differing from
\* the first
C4_Witness ==
    /\ probe.fn = "retryOperation"
    /\ probe.done
    /\ probe.retries = MAX_RETRIES
    /\ ~probe.output.ok
    /\ probe.output.attempts = MAX_RETRIES + 1
    /\ probe.input[1].error = "e1"
    /\ probe.output.error = "e2"

\* C5: analyzeEngagement returns exactly 5 integers in [0,100]: the first
\* min(k,5) of the k numeric tokens, each clamped, then zeros; all zeros when
\* the model call fails.
C5_FiveRatings ==
    (probe.fn = "analyzeEngagement" /\ probe.done)
    => LET out == probe.output
           call == probe.input
           tokens == SelectSeq(call.value, LAMBDA w : w.isDigits)
           k == IF Len(tokens) < 5 THEN Len(tokens) ELSE 5
           value(i) == DecimalValue(tokens[i].digits)
       IN  /\ Len(out) = 5
           /\ \A i \in 1..5 : out[i] \in 0..100
           /\ ~call.ok => out = <<0, 0, 0, 0, 0>>
           /\ call.ok => /\ \A i \in 1..k :
                                out[i] = IF value(i) > 100 THEN 100 ELSE value(i)
                         /\ \A i \in (k + 1)..5 : out[i] = 0

\* three numeric tokens among other words, one above 100: two zeros are padded
C5_Witness ==
    /\ probe.fn = "analyzeEngagement"
    /\ probe.done
    /\ probe.input.ok
    /\ Len(probe.input.value) = 5
    /\ Len(SelectSeq(probe.input.value, LAMBDA w : w.isDigits)) = 3
    /\ probe.output = <<101 - 1, 85, 0, 0, 0>>


RECURSIVE Flatten(_)
Flatten(lists) == IF Len(lists) = 0 THEN <<>> ELSE Head(lists) \o Flatten(Tail(lists))

\* endSession went as far as computing the engagement trend
TrendComputed ==
    /\ last.op = "endSession"
    /\ ~NoMessagesGiven
    /\ Len(last.saves) > 0
    /\ ~last.saves[1].raised

\* C6: for a non-empty message list of length n, endSession's engagement trend
\* splits the messages into exactly 3 contiguous non-empty chunks of at most
\* ceil(n/3) messages whose concatenation is the list, and calls the engagement
\* operation exactly 3 times, once per chunk.
C6_ThreeChunks ==
    TrendComputed
    => LET n == Len(last.messages.items) IN
       /\ Len(last.segments) = 3
       /\ \A k \in 1..Len(last.segments) :
              /\ Len(last.segments[k]) > 0
              /\ 3 * Len(last.segments[k]) <= n + 2
       /\ Flatten(last.segments) = last.messages.items
       /\ Len(last.engagementResults) = 3
       /\ last.modelCalls = 5 + 3 + 1

\* The sum of dimension d over the per-chunk scores
RECURSIVE SumOfDimension(_, _)
SumOfDimension(results, d) ==
    IF Len(results) = 0 THEN 0 ELSE Head(results)[d] + SumOfDimension(Tail(results), d)

\* C7: the engagementLevel of the record a successful endSession returns is, in
\* each of the five dimensions, the sum over the per-chunk scores divided by the
\* number of chunks and rounded to the nearest integer (a half rounds up); it is
\* 5 integers in [0,100], whatever the aggregator's own engagement score was.
C7_TrendIsRoundedAverage ==
    (last.op = "endSession" /\ last.outcome = "returned")
    => LET level == last.value.emotionalJourney.engagementLevel
           chunks == Len(last.engagementResults)
       IN  /\ chunks = Len(last.segments)
           /\ chunks > 0
           /\ Len(level) = 5
           /\ \A d \in 1..5 :
                  LET sum == SumOfDimension(last.engagementResults, d) IN
                  /\ level[d] \in 0..100
                  /\ 2 * chunks * level[d] - chunks <= 2 * sum
                  /\ 2 * sum < 2 * chunks * level[d] + chunks
           /\ store.items[Len(store.items)].emotionalJourney.engagementLevel = level

\* two chunks scored [90,60,30,0,0] and [100,7,8,9,10]: 33.5 rounds to 34, and
\* the aggregator's own score [85,70,65,75,80] is gone
C7_Witness ==
    /\ last.op = "endSession"
    /\ last.outcome = "returned"
    /\ last.engagementResults = << <<90, 60, 30, 0, 0>>, <<100, 7, 8, 9, 10>> >>
    /\ last.engagementLevels = <<85, 70, 65, 75, 80>>
    /\ last.fresh.emotionalJourney.engagementLevel = <<85, 70, 65, 75, 80>>
    /\ last.value.emotionalJourney.engagementLevel = <<95, 34, 19, 5, 5>>

\* C8: endSession and trackProgressWithEmotions called with an empty or non-list
\* message input raise without any model call and without reading or writing
\* the store, which stays as it was.
C8_NoMessagesNoEffect ==
    (last.op \in {"endSession", "trackProgressWithEmotions"} /\ NoMessagesGiven)
    => /\ last.outcome = "raised"
       /\ last.error \in {"No messages provided for session analysis",
                          "No messages provided for progress tracking"}
       /\ last.modelCalls = 0
       /\ last.storeReads = 0
       /\ last.storeWrites = 0
       /\ last.saves = <<>>
       /\ store = last.before

\* endSession with an empty list raised on a store that holds a record
C8_Witness ==
    /\ last.op = "endSession"
    /\ last.messages = MessageList(0)
    /\ last.outcome = "raised"
    /\ Len(store.items) > 0
    /\ store = last.before


\* trackProgressWithEmotions was called with messages and storage that works
TrackedOnWorkingStore ==
    /\ last.op = "trackProgressWithEmotions"
    /\ ~NoMessagesGiven
    /\ last.env.writes = WritesOk

\* C9: whichever of the five analysis model calls fail, trackProgressWithEmotions
\* on a non-empty message list with a working store returns and persists a record
\* in which a failed analysis contributes its typed default and a successful one
\* its parsed value.
C9_FailedAnalysesDefault ==
    TrackedOnWorkingStore
    => LET env == last.env
           r == last.value
       IN  /\ last.outcome = "returned"
           /\ r.sessionSummary =
                  IF env.summary.ok
                  THEN << <<"1. Talked about sleep">>, <<"2. Plans to exercise">> >>
                  ELSE <<>>
           /\ r.goals =
                  IF env.goals.ok
                  THEN << [goal |-> "Sleep better", progress |-> 70, status |-> "in-progress"],
                          [goal |-> "Exercise", progress |-> 100, status |-> "achieved"] >>
                  ELSE <<>>
           /\ r.improvements =
                  IF env.improvements.ok
                  THEN [ strengths |-> <<"persistent">>, challenges |-> <<>>,
                         recommendations |-> <<"walk daily">> ]
                  ELSE [strengths |-> <<>>, challenges |-> <<>>, recommendations |-> <<>>]
           /\ r.emotionalJourney.emotions =
                  IF env.emotions.ok
                  THEN << [timestamp |-> "10:00", emotion |-> "anxious", value |-> 7],
                          [timestamp |-> "10:05", emotion |-> "calm", value |-> 0] >>
                  ELSE <<>>
           /\ r.emotionalJourney.dominantEmotions =
                  IF env.emotions.ok
                  THEN << [emotion |-> "anxious", percentage |-> 60],
                          [emotion |-> "calm", percentage |-> 40] >>
                  ELSE <<>>
           /\ r.emotionalJourney.engagementLevel =
                  IF env.engagement.ok THEN <<85, 70, 65, 75, 80>> ELSE <<0, 0, 0, 0, 0>>
           /\ store.kind = "array"
           /\ store.items = getProgressHistory(last.before) \o <<r>>

\* the summary and goals calls failed, the other three succeeded
C9_Witness ==
    /\ TrackedOnWorkingStore
    /\ ~last.env.summary.ok
    /\ ~last.env.goals.ok
    /\ last.env.emotions.ok /\ last.env.engagement.ok /\ last.env.improvements.ok
    /\ last.outcome = "returned"
    /\ last.value.sessionSummary = <<>>
    /\ last.value.goals = <<>>
    /\ last.value.emotionalJourney.engagementLevel = <<85, 70, 65, 75, 80>>
    /\ store.items = <<last.value>>

\* C10: saveProgress raises 'Failed to save progress data' and leaves the stored
\* history as it was when the record is not shape-valid (without attempting a
\* write) and when all MAX_RETRIES + 1 writes fail; the callers of
\* trackProgressWithEmotions and endSession get that failure.
C10_SaveFailureIsGeneric ==
    /\ \A s \in Saves :
           LET valid == validateProgressData(s.data) = "true" IN
           /\ ~valid => s.raised /\ s.writes = 0 /\ s.reads = 0
           /\ s.raised => /\ s.error = "Failed to save progress data"
                          /\ s.after = s.before
                          /\ valid => s.writes = MAX_RETRIES + 1
           /\ ~s.raised => s.error = "none" /\ s.after # s.before
    /\ (last.op = "saveProgress" /\ last.env.writes = WritesFail)
           => last.saves[1].raised
    /\ (last.op = "trackProgressWithEmotions" /\ ~NoMessagesGiven
          /\ last.env.writes = WritesFail)
           => last.saves[1].raised
    /\ (last.op = "endSession" /\ ~NoMessagesGiven
          /\ last.env.writes = WritesOk /\ last.env.finalWrites = WritesFail)
           => Len(last.saves) = 2 /\ last.saves[2].raised
    /\ (\E s \in Saves : s.raised)
           => /\ last.outcome = "raised"
              /\ last.error = "Failed to save progress data"
              /\ store = last.saves[Len(last.saves)].before

\* the final save of endSession failed on all four writes and endSession raised
C10_Witness ==
    /\ last.op = "endSession"
    /\ Len(last.saves) = 2
    /\ ~last.saves[1].raised
    /\ last.saves[2].raised
    /\ last.saves[2].writes = MAX_RETRIES + 1
    /\ last.saves[2].cause = "QuotaExceededError"
    /\ last.outcome = "raised"
    /\ last.error = "Failed to save progress data"

\* The stored elements that pass shape validation, in stored order
ShapeValidItems(st) ==
    IF st.kind = "array"
    THEN SelectSeq(st.items, LAMBDA item : validateProgressData(item) = "true")
    ELSE <<>>

\* C11: getProgressHistory yields the empty history for a missing key, text that
\* does not deserialize or a payload that is no list, and otherwise exactly the
\* stored elements that pass shape validation, in stored order; getLatestProgress
\* yields the last of these, or null when there is none.
C11_ReadsShapeValidItems ==
    /\ (probe.fn = "getProgressHistory" /\ probe.done)
           => probe.output = ShapeValidItems(probe.input)
    /\ (probe.fn = "getLatestProgress" /\ probe.done)
           => probe.output =
                  IF ShapeValidItems(probe.input) = <<>> THEN NullRecord
                  ELSE ShapeValidItems(probe.input)[Len(ShapeValidItems(probe.input))]

\* C12: once two overlapping saveProgress calls have both completed
\* successfully, the persisted history contains the records of both.
C12_NoLostUpdate ==
    (\A c \in DOMAIN pending : pending[c].pc = "saved")
        => \A c \in DOMAIN pending : pending[c].data \in Persisted

\* The call in flight has assembled its record from the analyses
Assembled == run.pc # "idle" /\ ~IsNull(run.fresh)

\* The names of the analyses whose promise has resolved
SettledNames == {run.settled[j] : j \in 1..Len(run.settled)}

FiveAnalyses == {"emotions", "engagement", "summary", "goals", "improvements"}

\* C13: while the analyses are awaited all five have been started and nothing
\* has been persisted; Promise.all resolves only when all five have resolved;
\* and, whatever the order they resolved in, each field of the record comes from
\* its analysis and the record and the store are those of the call taken whole.
C13_AnalysesJoined ==
    /\ run.pc = "analyses"
           => /\ run.issued = AnalysisNames
              /\ run.modelCalls = 5
              /\ store = run.before
              /\ pending = NoPending
              /\ IsNull(run.fresh)
    /\ (run.pc = "analyses" /\ allSettled(run.issued, run.settled))
           => SettledNames = FiveAnalyses
    /\ Assembled
           => /\ SettledNames = FiveAnalyses
              /\ Len(run.settled) = 5
              /\ run.fresh.emotionalJourney.emotions
                     = analyzeEmotions(run.env.emotions).emotions
              /\ run.fresh.emotionalJourney.dominantEmotions
                     = analyzeEmotions(run.env.emotions).dominantEmotions
              /\ run.fresh.emotionalJourney.engagementLevel
                     = analyzeEngagement(run.env.engagement)
              /\ run.fresh.sessionSummary = analyzeSessionSummary(run.env.summary)
              /\ run.fresh.goals = toProgressGoals(analyzeGoals(run.env.goals))
              /\ run.fresh.improvements = analyzeImprovements(run.env.improvements)
              /\ run.fresh = trackProgressWithEmotions(
                                 MissingKey, clock, run.messages,
                                 [run.env EXCEPT !.writes = WritesOk]).value
    /\ (Assembled /\ (run.pc \in {"chunks", "session"}
                      \/ (run.pc = "returned" /\ run.op = "trackProgressWithEmotions")))
           => /\ store = trackProgressWithEmotions(run.before, clock, run.messages,
                                                   run.env).store
              /\ store.items[Len(store.items)] = jsonRecord(run.fresh)

\* the aggregator returned after the five promises resolved in the reverse of
\* the order they were made in, and its record is persisted
C13_Witness ==
    /\ run.pc = "returned"
    /\ run.op = "trackProgressWithEmotions"
    /\ run.settled = <<"improvements", "goals", "summary", "engagement", "emotions">>
    /\ run.before = PriorStore
    /\ Len(store.items) = 2
    /\ run.value.goals # <<>>

\* endSession has returned
EndSessionReturned == run.pc = "returned" /\ run.op = "endSession"

\* C14: when endSession returns, the record it returns is the last record of the
\* persisted history: getLatestProgress, called at once, yields a record equal
\* to it.
C14_ReturnedIsLatest ==
    EndSessionReturned => getLatestProgress(store) = run.value

\* The emotion entries the analysis of the call makes of its response
NewEmotions ==
    IF run.env.emotions = Resolved(EmotionsResponse)
    THEN << [timestamp |-> "10:00", emotion |-> "anxious", value |-> 7],
            [timestamp |-> "10:05", emotion |-> "calm", value |-> 0] >>
    ELSE << [timestamp |-> "10:00", emotion |-> "anxious", value |-> Infinity] >>

\* The emotion list of the latest record persisted before the call, if any
PriorEmotions ==
    IF run.before = PriorStore
    THEN << [timestamp |-> "09:00", emotion |-> "sad", value |-> 4] >>
    ELSE <<>>

\* C17: the emotion list of the record endSession returns is the emotion list
\* of the prior latest record, if there is one, followed by the entries of the
\* new analysis, each in its order.
C17_EmotionsPriorFirst ==
    EndSessionReturned
        => /\ run.value.emotionalJourney.emotions = PriorEmotions \o NewEmotions
           /\ PriorEmotions =
                  IF IsNull(getLatestProgress(run.before)) THEN <<>>
                  ELSE getLatestProgress(run.before).emotionalJourney.emotions
           /\ NewEmotions = run.fresh.emotionalJourney.emotions
           /\ Len(run.value.emotionalJourney.emotions)
                  = Len(PriorEmotions) + Len(NewEmotions)

\* endSession returned on a store that held a prior record
C17_Witness ==
    /\ EndSessionReturned
    /\ run.before = PriorStore
    /\ Len(run.value.emotionalJourney.emotions) = 3
    /\ run.value.emotionalJourney.emotions[1].emotion = "sad"

\* C18: a successful endSession call on a history of n < 50 valid records
\* leaves exactly n + 1 records, the new one being the merged final record.
C18_AppendedOnce ==
    (EndSessionReturned /\ Len(getProgressHistory(run.before)) < HISTORY_LIMIT)
        => /\ Len(getProgressHistory(store)) = Len(getProgressHistory(run.before)) + 1
           /\ getLatestProgress(store) = jsonRecord(run.value)

\* The operation in flight has returned a record or raised
Settled == run.pc \in {"returned", "raised"}

\* C19: when no call to the model or to the store hangs, every call of
\* trackProgressWithEmotions and of endSession eventually returns a record or
\* raises, and no saveProgress makes more than 4 attempts to write.
C19_CallsSettle ==
    /\ [](\A c \in DOMAIN pending : pending[c].attempts <= MAX_RETRIES + 1)
    /\ (run.pc # "idle") ~> Settled

\* endSession raised after its last save made four attempts to write
C19_Witness ==
    /\ run.pc = "raised"
    /\ run.op = "endSession"
    /\ run.error = SaveError
    /\ run.env.writes = WritesRecover
    /\ pending["save"].attempts = MAX_RETRIES + 1
    /\ Len(store.items) = 1

\* The blocks of the response that have both a Title and a Description
BothFields ==
    {i \in 1..Len(probe.input.value) :
        probe.input.value[i].title # "" /\ probe.input.value[i].description # ""}

\* The place among the emitted goals of the goal of block i
GoalPlace(i) == Cardinality({j \in BothFields : j <= i})

\* C15: analyzeGoals emits one goal, in order, for each block that has both a
\* Title and a Description, and none for any other block; the progress of the
\* goal is the number of the block's Progress field when that is at most 100,
\* 100 when it is more, and 0 when the block has no Progress field.
C15_GoalPerFullBlock ==
    (probe.fn = "analyzeGoals" /\ probe.done /\ probe.input.ok) =>
        /\ Len(probe.output) = Cardinality(BothFields)
        /\ \A i \in BothFields :
               LET block == probe.input.value[i]
                   goal == probe.output[GoalPlace(i)]
               IN  /\ goal.description = block.description
                   /\ goal.progress \in 0..100
                   /\ ~block.progress.matched => goal.progress = 0
                   /\ block.progress.digits = <<4, 0>> => goal.progress = 40
                   /\ block.progress.digits = <<1, 5, 0>> => goal.progress = 100

\* A block with a Title alone is dropped and the block after it, with
\* "Progress: 150%", gives the only goal
C15_Witness ==
    /\ probe.fn = "analyzeGoals"
    /\ probe.done
    /\ probe.input.ok
    /\ Len(probe.input.value) = 2
    /\ probe.input.value[1].title # ""
    /\ probe.input.value[1].description = ""
    /\ probe.input.value[2].progress.digits = <<1, 5, 0>>
    /\ Len(probe.output) = 1
    /\ probe.output[1].progress = 100

\* C16: from the empty store, after any calls of trackProgressWithEmotions and
\* endSession, the progress of every goal of the record returned and of every
\* record in the store is an integer from 0 to 100.
C16_ProgressInRange ==
    \A r \in Returned \cup Persisted :
        \A i \in 1..Len(r.goals) : r.goals[i].progress \in 0..100

\* endSession answered "Progress: 150%" for a goal the store had at 20: the
\* record returned and the last record stored have it at 100
C16_Witness ==
    /\ last.op = "endSession"
    /\ last.outcome = "returned"
    /\ last.env.goals = Resolved(<<EX150>>)
    /\ ~IsNull(last.latestProgress)
    /\ \E i \in 1..Len(last.latestProgress.goals) :
           /\ last.latestProgress.goals[i].goal = "Exercise"
           /\ last.latestProgress.goals[i].progress = 20
           /\ last.value.goals[i].progress = 100
           /\ store.items[Len(store.items)].goals[i].progress = 100

\* C20: a call of trackProgressWithEmotions with a message list that is not
\* empty makes exactly 5 calls to the model, whichever of them fail.
C20_FiveModelCalls ==
    (last.op = "trackProgressWithEmotions" /\ ~NoMessagesGiven)
    => last.modelCalls = 5

\* All five calls to the model failed, and the call made five and returned
C20_Witness ==
    /\ last.op = "trackProgressWithEmotions"
    /\ ~NoMessagesGiven
    /\ ~last.env.emotions.ok
    /\ ~last.env.engagement.ok
    /\ ~last.env.summary.ok
    /\ ~last.env.goals.ok
    /\ ~last.env.improvements.ok
    /\ last.modelCalls = 5
    /\ last.outcome = "returned"

\* C21: a call of endSession that raises leaves the store as it was before the
\* call.
C21_RaisedLeavesStore ==
    (last.op = "endSession" /\ last.outcome = "raised") => store = last.before

\* The goals of the last record in the store, none when the store has no record
LatestGoals(st) ==
    IF st.kind = "array" /\ Len(st.items) > 0 THEN st.items[Len(st.items)].goals ELSE <<>>

\* C22: after a call of endSession that returned, every goal of the record that
\* was the last in the store before the call is, under the same name and with a
\* progress at least as large, among the goals of the record that is the last
\* in the store after it.
C22_ProgressNeverRegresses ==
    (last.op = "endSession" /\ last.outcome = "returned") =>
        \A i \in 1..Len(LatestGoals(last.before)) :
            \E j \in 1..Len(LatestGoals(store)) :
                /\ LatestGoals(store)[j].goal = LatestGoals(last.before)[i].goal
                /\ LatestGoals(store)[j].progress >= LatestGoals(last.before)[i].progress

\* The store had "Sleep better" at 70 and "Exercise" at 20; the session found
\* "Sleep better" at 40 only; the record stored has 70 and 20
C22_Witness ==
    /\ last.op = "endSession"
    /\ last.outcome = "returned"
    /\ LatestGoals(last.before) =
           << [goal |-> "Sleep better", progress |-> 70, status |-> "in-progress"],
              [goal |-> "Exercise", progress |-> 20, status |-> "in-progress"] >>
    /\ Len(last.fresh.goals) = 1
    /\ last.fresh.goals[1].goal = "Sleep better"
    /\ last.fresh.goals[1].progress = 40
    /\ LatestGoals(store) = LatestGoals(last.before)

\* The names of the goals of a list
GoalNames(goals) == {goals[i].goal : i \in 1..Len(goals)}

\* No two goals of the list have the same name
DistinctNames(goals) ==
    \A i, j \in 1..Len(goals) : goals[i].goal = goals[j].goal => i = j

\* The goals given to mergeGoals, previous and new
InputGoals ==
    {probe.input.previousGoals[i] : i \in 1..Len(probe.input.previousGoals)}
    \cup {probe.input.newGoals[i] : i \in 1..Len(probe.input.newGoals)}

\* The progresses given for a name in the two lists that were merged
ProgressesOf(name) == {g.progress : g \in {x \in InputGoals : x.goal = name}}

\* C23: when the previous goals have distinct names, the goals mergeGoals
\* returns have distinct names, these names are the names of the previous goals
\* and of the new goals together, and a goal's progress is the largest given
\* for its name in the two lists.
C23_MergedNamesDistinct ==
    (probe.fn = "mergeGoals" /\ probe.done /\ DistinctNames(probe.input.previousGoals)) =>
        /\ DistinctNames(probe.output)
        /\ GoalNames(probe.output) =
               GoalNames(probe.input.previousGoals) \cup GoalNames(probe.input.newGoals)
        /\ \A i \in 1..Len(probe.output) :
               /\ probe.output[i].progress \in ProgressesOf(probe.output[i].goal)
               /\ \A p \in ProgressesOf(probe.output[i].goal) : p <= probe.output[i].progress

\* "Exercise" comes twice among the new goals, at 20 and at 70, and once in the
\* merged list, at 70, after the previous goal
C23_Witness ==
    /\ probe.fn = "mergeGoals"
    /\ probe.done
    /\ Len(probe.input.previousGoals) = 1
    /\ probe.input.previousGoals[1].goal = "Sleep better"
    /\ Len(probe.input.newGoals) = 2
    /\ probe.input.newGoals[1].goal = "Exercise"
    /\ probe.input.newGoals[1].progress = 20
    /\ probe.input.newGoals[2].goal = "Exercise"
    /\ probe.input.newGoals[2].progress = 70
    /\ Len(probe.output) = 2
    /\ probe.output[1] = probe.input.previousGoals[1]
    /\ probe.output[2].goal = "Exercise"
    /\ probe.output[2].progress = 70

====
